---- MODULE Spec2Model ----
(***************************************************************************)
(* Verification model of grait_trade_bot.                                  *)
(*                                                                         *)
(*   file_stream.py            FileTailer.follow, merged_file_stream       *)
(*   src/utils/alert_parser.py parse_alert_line                            *)
(*   src/common/trading_engine.py  TradingEngine.evaluate_trade / run      *)
(*   indicators.py             IndicatorSeries                             *)
(*                                                                         *)
(* A source file is a sequence of lines; every line has a byte length, so  *)
(* that the tailer's cursor (a byte offset) can fall inside a line.        *)
(***************************************************************************)
EXTENDS Integers, Sequences, FiniteSets, TLC

\* ------------------------------------------------------------------ bounds
MaxTs      == 2      \* timestamps of alert lines are 1..MaxTs
MaxLineLen == 2      \* byte length of a line (newline included) is 1..MaxLineLen
MaxLines   == 2      \* a source holds at most MaxLines lines
MaxOps     == 2      \* producer operations in a run of the tailer specification
MaxMOps    == 2      \* producer operations in a run of the merger specification

Symbols  == {"A", "B"}
SymOrder == <<"A", "B">>      \* iteration order of symbol_to_path

VARIABLES
  file,       \* file[s]: [exists, lines] -- the per-symbol source on disk
  tpc,        \* tpc[s]: where the task running FileTailer(s).follow() is
  pos,        \* FileTailer._pos
  last_ts,    \* FileTailer._last_ts (0 = None)
  emitted,    \* history: timestamps yielded by follow(), in order
  base,       \* history: number of lines in the source when follow() took its initial position
  hist,       \* history: kinds of producer operation applied since follow() took its position
  settled,    \* history: a poll tick has ended (or the tailer has died) since the source last changed
  trunc,      \* history: the last size check found size < _pos and no read has completed since
  stale,      \* history: a parsed record of this symbol with ts <= _last_ts was read and dropped
  queues,     \* merged_file_stream: queues[sym]
  mpc,        \* merged_file_stream: position of the generator
  ci,         \* merged_file_stream: index into tasks in the finally block
  delivered,  \* history: batches yielded to the consumer
  ops,        \* producer operations left
  price,      \* FilePriceTracker: price[s] = [cur, prev] (0 = no price yet)
  info,       \* SymbolInfoManager: info[s], the SymbolInfo of s
  calls,      \* history: calls[s] = actions handed to the order gateway for s, in order
  branch,     \* history: the branch the last evaluate_trade call for s took
  epc,        \* TradingEngine.run: "poll", "loop" or "crashed"
  ei,         \* TradingEngine.run: index of the symbol the for loop is at
  ticks,      \* poll rounds left
  scen,       \* history: scen[s] = how far the polled prices of s follow "first price, higher, below the first"
  series,     \* an IndicatorSeries: [maxlen, values, timestamps]
  inserted,   \* history: every value passed to IndicatorSeries.update, in order
  crec,       \* the indicator record handed to the trend heuristics
  ctrend,     \* trends.trend_of(crec) ("unset" before the call)
  cderived,   \* stream_trader.derive_trend(crec) ("unset" before the call)
  pstate,     \* trends.PositionState: [side, last_trend]
  bcalls,     \* history: broker methods called by handle_trend, in order
  bdone,      \* history: those of them that returned, in order
  htrend,     \* history: the most recent trend handed to handle_trend that was not None
  hlabel,     \* history: what the last handle_trend call returned ("RAISED" = it raised)
  hsteps,     \* handle_trend calls left
  reenter,    \* the reenter_on_reverse argument of the run
  assets,     \* run_streaming_trader: the keys of assets_by_symbol
  tlast,      \* run_streaming_trader: last_trend ("none" = no entry)
  signals,    \* history: signals handed to on_signal, in order
  skipped,    \* history: records _on_update returned from without a signal
  trun,       \* stream_indicator_updates: "off" or "run"
  tleft       \* records left in a run of the trader specification

streamVars == <<file, tpc, pos, last_ts, emitted, base, hist, settled, trunc, stale,
                queues, mpc, ci, delivered, ops>>

engineVars == <<price, info, calls, branch, epc, ei, ticks, scen>>

seriesVars == <<series, inserted>>

classVars == <<crec, ctrend, cderived>>

trendVars == <<pstate, bcalls, bdone, htrend, hlabel, hsteps, reenter>>

traderVars == <<assets, tlast, signals, skipped, trun, tleft>>

vars == <<file, tpc, pos, last_ts, emitted, base, hist, settled, trunc, stale,
          queues, mpc, ci, delivered, ops, price, info, calls, branch, epc, ei, ticks, scen,
          series, inserted, crec, ctrend, cderived, pstate, bcalls, bdone, htrend,
          hlabel, hsteps, reenter,
          assets, tlast, signals, skipped, trun, tleft>>

\* no IndicatorSeries exists (stream and engine specifications)
SeriesIdle ==
  /\ series = [maxlen |-> 0, values |-> <<>>, timestamps |-> <<>>]
  /\ inserted = <<>>

\* no record is being classified
ClassIdle ==
  /\ crec = [price |-> 0, sma20 |-> 0, ema20 |-> 0, ema9 |-> 0]
  /\ ctrend = "unset"
  /\ cderived = "unset"

\* no PositionState is driven
TrendIdle ==
  /\ pstate = [side |-> "None", last_trend |-> "None"]
  /\ bcalls = <<>>
  /\ bdone = <<>>
  /\ htrend = "None"
  /\ hlabel = "none"
  /\ hsteps = 0
  /\ reenter = TRUE

\* run_streaming_trader is not running
TraderIdle ==
  /\ assets = {}
  /\ tlast = [s \in Symbols |-> "none"]
  /\ signals = <<>>
  /\ skipped = <<>>
  /\ trun = "off"
  /\ tleft = 0

\* SymbolInfo as SymbolInfoManager creates it (last_trade_price 0 = absent)
NewInfo(expected) ==
  [ unrealized_pnl |-> 0, realized_pnl |-> 0, is_blocked |-> FALSE,
    last_trade_side |-> "none", expected_trade_side |-> expected,
    trade_count |-> 0, last_trade_price |-> 0, current_price |-> 0 ]

\* the engine is not running (stream specifications)
EngineIdle ==
  /\ price = [s \in Symbols |-> [cur |-> 0, prev |-> 0]]
  /\ info = [s \in Symbols |-> NewInfo("buy")]
  /\ calls = [s \in Symbols |-> <<>>]
  /\ branch = [s \in Symbols |-> "none"]
  /\ epc = "off"
  /\ ei = 0
  /\ ticks = 0
  /\ scen = [s \in Symbols |-> [k |-> -1, p1 |-> 0]]

\* ------------------------------------------------------------------ lines
\* kind "alert": matches LINE_RE with a valid timestamp; "badts": matches
\* LINE_RE but strptime rejects the 14 digits; "junk": does not match;
\* "part": the first len bytes of a record whose line the producer has not
\* finished (no timestamp, no newline yet), which does not match either.
AlertLines(syms) ==
  [kind : {"alert"}, sym : syms, ts : 1..MaxTs, len : 1..MaxLineLen]

BadLines(s) ==
  [kind : {"junk", "badts"}, sym : {s}, ts : {0}, len : 1..MaxLineLen]

\* what a producer may write to the source of s in the tailer specification:
\* records of s of every length, and one-byte lines that are dropped (a record
\* of another symbol, a line that does not match) or that raise
TLines(s) ==
  AlertLines({s}) \cup
  { l \in AlertLines(Symbols \ {s}) \cup BadLines(s) : l.len = 1 }

\* what a producer may write to the source of s in the merger specification
MLines(s) ==
  { l \in AlertLines({s}) : l.len = 1 } \cup
  { l \in BadLines(s) : l.kind = "badts" /\ l.len = 1 }

RECURSIVE Size(_)
Size(ls) == IF ls = <<>> THEN 0 ELSE Head(ls).len + Size(Tail(ls))

\* parse_alert_line applied to one chunk returned by the file iterator.
\* whole = the chunk is a complete line (the read started at or before its
\* first byte); a chunk that starts inside a line does not match LINE_RE.
parse_alert_line(l, whole) ==
  IF ~whole \/ l.kind \in {"junk", "part"} THEN [res |-> "none", sym |-> "", ts |-> 0]
  ELSE IF l.kind = "badts"     THEN [res |-> "raise", sym |-> "", ts |-> 0]
  ELSE [res |-> "alert", sym |-> l.sym, ts |-> l.ts]

\* mutant of DedupePass: a record equal to the watermark passes
DedupePassGe(ts, w) == w = 0 \/ ts >= w

\* follow(), line 39: the dedupe test on the timestamp (w = 0 is _last_ts None)
DedupePass(ts, w) == w = 0 \/ ts > w

\* The body of `with open(...)`: f.seek(p), then the for loop over the lines.
\* off = byte offset of the first byte of Head(ls); acc = [out: yields so far,
\* wm: _last_ts, stale: a record was dropped by the dedupe test].
RECURSIVE ReadLoop(_, _, _, _, _)
ReadLoop(ls, off, p, acc, sym) ==
  IF ls = <<>> THEN [out |-> acc.out, wm |-> acc.wm, stale |-> acc.stale, raised |-> FALSE]
  ELSE LET l    == Head(ls)
           next == off + l.len
       IN IF next <= p
          THEN ReadLoop(Tail(ls), next, p, acc, sym)       \* before the cursor
          ELSE LET a == parse_alert_line(l, off >= p)
               IN IF a.res = "raise"
                  THEN [out |-> acc.out, wm |-> acc.wm, stale |-> acc.stale, raised |-> TRUE]
                  ELSE IF a.res = "alert" /\ a.sym = sym
                       THEN IF DedupePass(a.ts, acc.wm)
                            THEN ReadLoop(Tail(ls), next, p,
                                          [out |-> Append(acc.out, a.ts), wm |-> a.ts,
                                           stale |-> acc.stale], sym)
                            ELSE ReadLoop(Tail(ls), next, p,
                                          [acc EXCEPT !.stale = TRUE], sym)
                       ELSE ReadLoop(Tail(ls), next, p, acc, sym)

ReadFrom(ls, p, w, sym) ==
  ReadLoop(ls, 0, p, [out |-> <<>>, wm |-> w, stale |-> FALSE], sym)

\* ------------------------------------------------------------------ tailer
\* asyncio runs one task at a time: a task is between two awaits only while
\* no other task is.
MidStep(s) == tpc[s] \in {"size", "read"}
OthersAtAwait(s) == \A t \in Symbols \ {s} : ~MidStep(t)
AllAtAwait == \A t \in Symbols : ~MidStep(t)

\* follow(), line 16 / line 19: the existence test
TExists(s) ==
  /\ tpc[s] \in {"start", "wait"}
  /\ OthersAtAwait(s)
  /\ tpc' = [tpc EXCEPT ![s] = IF file[s].exists THEN "size" ELSE "wait"]
  /\ tpc'[s] # tpc[s]
  /\ UNCHANGED <<file, pos, last_ts, emitted, base, hist, settled, trunc, stale,
                 queues, mpc, ci, delivered, ops>>
  /\ UNCHANGED <<engineVars, seriesVars, classVars, trendVars, traderVars>>

\* mutant of TInitPos: follow() starts at the beginning of the source
TInitPosStart(s) ==
  /\ tpc[s] = "size"
  /\ IF file[s].exists
     THEN /\ pos'  = [pos  EXCEPT ![s] = 0]
          /\ base' = [base EXCEPT ![s] = Len(file[s].lines)]
          /\ tpc'  = [tpc  EXCEPT ![s] = "poll"]
          /\ hist' = [hist EXCEPT ![s] = {}]
          /\ settled' = [settled EXCEPT ![s] = TRUE]
     ELSE /\ tpc'  = [tpc  EXCEPT ![s] = "failed"]
          /\ settled' = [settled EXCEPT ![s] = TRUE]
          /\ UNCHANGED <<pos, base, hist>>
  /\ UNCHANGED <<file, last_ts, emitted, trunc, stale, queues, mpc, ci, delivered, ops>>
  /\ UNCHANGED <<engineVars, seriesVars, classVars, trendVars, traderVars>>

\* follow(), line 17 / line 21: self._pos = os.path.getsize(...), outside any try
TInitPos(s) ==
  /\ tpc[s] = "size"
  /\ IF file[s].exists
     THEN /\ pos'  = [pos  EXCEPT ![s] = Size(file[s].lines)]
          /\ base' = [base EXCEPT ![s] = Len(file[s].lines)]
          /\ tpc'  = [tpc  EXCEPT ![s] = "poll"]
          /\ hist' = [hist EXCEPT ![s] = {}]
          /\ settled' = [settled EXCEPT ![s] = TRUE]
     ELSE /\ tpc'  = [tpc  EXCEPT ![s] = "failed"]
          /\ settled' = [settled EXCEPT ![s] = TRUE]
          /\ UNCHANGED <<pos, base, hist>>
  /\ UNCHANGED <<file, last_ts, emitted, trunc, stale, queues, mpc, ci, delivered, ops>>
  /\ UNCHANGED <<engineVars, seriesVars, classVars, trendVars, traderVars>>

\* mutant of TPoll: a missing source is taken for a truncated one
TPollResetOnMissing(s) ==
  /\ tpc[s] = "poll"
  /\ OthersAtAwait(s)
  /\ IF ~file[s].exists
     THEN /\ pos' = [pos EXCEPT ![s] = 0]
          /\ settled' = [settled EXCEPT ![s] = TRUE]
          /\ UNCHANGED <<tpc, trunc>>
     ELSE LET size == Size(file[s].lines)
              p1   == IF size < pos[s] THEN 0 ELSE pos[s]
          IN /\ pos'   = [pos EXCEPT ![s] = p1]
             /\ trunc' = [trunc EXCEPT ![s] = @ \/ size < pos[s]]
             /\ IF size > p1
                THEN /\ tpc' = [tpc EXCEPT ![s] = "read"]
                     /\ UNCHANGED settled
                ELSE /\ settled' = [settled EXCEPT ![s] = TRUE]
                     /\ UNCHANGED tpc
  /\ UNCHANGED <<file, last_ts, emitted, base, hist, stale, queues, mpc, ci, delivered, ops>>
  /\ UNCHANGED <<engineVars, seriesVars, classVars, trendVars, traderVars>>

\* mutant of TPoll: a truncation resets the watermark with the cursor
TPollResetsWatermark(s) ==
  /\ tpc[s] = "poll"
  /\ OthersAtAwait(s)
  /\ IF ~file[s].exists
     THEN /\ settled' = [settled EXCEPT ![s] = TRUE]
          /\ UNCHANGED <<tpc, pos, trunc, last_ts>>
     ELSE LET size == Size(file[s].lines)
              p1   == IF size < pos[s] THEN 0 ELSE pos[s]
          IN /\ pos'   = [pos EXCEPT ![s] = p1]
             /\ last_ts' = [last_ts EXCEPT ![s] = IF size < pos[s] THEN 0 ELSE @]
             /\ trunc' = [trunc EXCEPT ![s] = @ \/ size < pos[s]]
             /\ IF size > p1
                THEN /\ tpc' = [tpc EXCEPT ![s] = "read"]
                     /\ UNCHANGED settled
                ELSE /\ settled' = [settled EXCEPT ![s] = TRUE]
                     /\ UNCHANGED tpc
  /\ UNCHANGED <<file, emitted, base, hist, stale, queues, mpc, ci, delivered, ops>>
  /\ UNCHANGED <<engineVars, seriesVars, classVars, trendVars, traderVars>>

\* follow(), lines 24-32 and 45-50: the size check of one poll tick
TPoll(s) ==
  /\ tpc[s] = "poll"
  /\ OthersAtAwait(s)
  /\ IF ~file[s].exists
     THEN \* FileNotFoundError: pass
          /\ settled' = [settled EXCEPT ![s] = TRUE]
          /\ UNCHANGED <<tpc, pos, trunc>>
     ELSE LET size == Size(file[s].lines)
              p1   == IF size < pos[s] THEN 0 ELSE pos[s]
          IN /\ pos'   = [pos EXCEPT ![s] = p1]
             /\ trunc' = [trunc EXCEPT ![s] = @ \/ size < pos[s]]
             /\ IF size > p1
                THEN /\ tpc' = [tpc EXCEPT ![s] = "read"]
                     /\ UNCHANGED settled
                ELSE /\ settled' = [settled EXCEPT ![s] = TRUE]
                     /\ UNCHANGED tpc
  /\ UNCHANGED <<file, last_ts, emitted, base, hist, stale, queues, mpc, ci, delivered, ops>>
  /\ UNCHANGED <<engineVars, seriesVars, classVars, trendVars, traderVars>>

\* follow(), lines 33-43: open, seek, parse every line, yield, tell.
\* pump (line 56-58) puts every yielded alert on queues[sym] when a merger
\* owns the tailer; Queue.put on an unbounded queue never suspends.
TRead(s) ==
  /\ tpc[s] = "read"
  /\ IF ~file[s].exists
     THEN \* open raises FileNotFoundError: pass
          /\ tpc' = [tpc EXCEPT ![s] = "poll"]
          /\ settled' = [settled EXCEPT ![s] = TRUE]
          /\ UNCHANGED <<pos, last_ts, emitted, trunc, stale, queues>>
     ELSE LET ls   == file[s].lines
              r    == ReadFrom(ls, pos[s], last_ts[s], s)
              recs == [i \in 1..Len(r.out) |-> [sym |-> s, ts |-> r.out[i]]]
          IN /\ last_ts' = [last_ts EXCEPT ![s] = r.wm]
             /\ emitted' = [emitted EXCEPT ![s] = @ \o r.out]
             /\ queues'  = IF mpc = "off" THEN queues
                           ELSE [queues EXCEPT ![s] = @ \o recs]
             /\ stale'   = [stale EXCEPT ![s] = @ \/ r.stale]
             /\ settled' = [settled EXCEPT ![s] = TRUE]
             /\ IF r.raised
                THEN \* ValueError from strptime leaves follow(): the task ends
                     /\ tpc' = [tpc EXCEPT ![s] = "failed"]
                     /\ UNCHANGED <<pos, trunc>>
                ELSE /\ tpc' = [tpc EXCEPT ![s] = "poll"]
                     /\ pos' = [pos EXCEPT ![s] =
                                  IF pos[s] > Size(ls) THEN pos[s] ELSE Size(ls)]
                     /\ trunc' = [trunc EXCEPT ![s] = FALSE]
  /\ UNCHANGED <<file, base, hist, mpc, ci, delivered, ops>>
  /\ UNCHANGED <<engineVars, seriesVars, classVars, trendVars, traderVars>>

\* follow(), lines 24-47: os.path.getsize / open raise an OSError that is not
\* FileNotFoundError (the source is momentarily unreadable)
TUnreadable(s) ==
  /\ tpc[s] = "poll"
  /\ OthersAtAwait(s)
  /\ file[s].exists
  /\ tpc' = [tpc EXCEPT ![s] = "failed"]
  /\ settled' = [settled EXCEPT ![s] = TRUE]
  /\ UNCHANGED <<file, pos, last_ts, emitted, base, hist, trunc, stale,
                 queues, mpc, ci, delivered, ops>>
  /\ UNCHANGED <<engineVars, seriesVars, classVars, trendVars, traderVars>>

\* ------------------------------------------------------------------ producers
Touch(s, kind) ==
  /\ ops > 0
  /\ ops' = ops - 1
  /\ hist' = [hist EXCEPT ![s] = @ \cup {kind}]
  /\ settled' = [settled EXCEPT ![s] = FALSE]
  /\ UNCHANGED <<tpc, pos, last_ts, emitted, base, trunc, stale, queues, mpc, ci, delivered>>
  /\ UNCHANGED <<engineVars, seriesVars, classVars, trendVars, traderVars>>

\* the last line of the source is one the producer has not finished
LastIsPart(ls) == ls # <<>> /\ ls[Len(ls)].kind = "part"

\* test_file_stream.py replay_consolidated, lines 51-54: open(out_file, "a"), write raw + "\n"
PAppend(s, l) ==
  /\ Len(file[s].lines) < MaxLines
  /\ ~LastIsPart(file[s].lines)
  /\ file' = [file EXCEPT ![s] = [exists |-> TRUE, lines |-> Append(@.lines, l)]]
  /\ Touch(s, "append")

\* price_alerts.py save_to_symbol_files, lines 152-153: open(..., "w"), write line + "\n"
POverwrite(s, l) ==
  /\ file' = [file EXCEPT ![s] = [exists |-> TRUE, lines |-> <<l>>]]
  /\ Touch(s, "overwrite")

\* test_file_stream.py replay_consolidated, line 36: open(p, "w").close()
PTruncate(s) ==
  /\ file[s].exists => file[s].lines # <<>>
  /\ file' = [file EXCEPT ![s] = [exists |-> TRUE, lines |-> <<>>]]
  /\ Touch(s, "truncate")

\* a producer whose write of the two-byte line l, the first line of the
\* source, reaches the source in two pieces: the first byte ...
PPartial(s, l) ==
  /\ file[s].exists
  /\ file[s].lines = <<>>
  /\ l.len = 2
  /\ file' = [file EXCEPT ![s].lines = Append(@, [l EXCEPT !.kind = "part", !.len = 1])]
  /\ Touch(s, "partial")

\* ... and then the rest of it, newline included
PComplete(s) ==
  /\ LastIsPart(file[s].lines)
  /\ LET ls == file[s].lines
         l  == ls[Len(ls)]
     IN file' = [file EXCEPT ![s].lines =
                   [ls EXCEPT ![Len(ls)] = [l EXCEPT !.kind = "alert", !.len = 2]]]
  /\ Touch(s, "complete")

\* rotation: the source is removed
PRemove(s) ==
  /\ file[s].exists
  /\ file' = [file EXCEPT ![s] = [exists |-> FALSE, lines |-> <<>>]]
  /\ Touch(s, "remove")

\* ------------------------------------------------------------------ tailer specification
NoFile == [exists |-> FALSE, lines |-> <<>>]

\* the sources a run can start from: missing, empty, or holding one line of L
FilesOver(L) ==
  {NoFile, [exists |-> TRUE, lines |-> <<>>]} \cup
  { [exists |-> TRUE, lines |-> <<l>>] : l \in L }

TSrc == {"A"}

InitTailer ==
  /\ file \in { f \in [Symbols -> FilesOver(UNION { TLines(s) : s \in Symbols })] :
                 \A s \in Symbols :
                   IF s \in TSrc THEN f[s] \in FilesOver(TLines(s)) ELSE f[s] = NoFile }
  /\ tpc = [s \in Symbols |-> IF s \in TSrc THEN "start" ELSE "off"]
  /\ pos = [s \in Symbols |-> 0]
  /\ last_ts = [s \in Symbols |-> 0]
  /\ emitted = [s \in Symbols |-> <<>>]
  /\ base = [s \in Symbols |-> 0]
  /\ hist = [s \in Symbols |-> {}]
  /\ settled = [s \in Symbols |-> FALSE]
  /\ trunc = [s \in Symbols |-> FALSE]
  /\ stale = [s \in Symbols |-> FALSE]
  /\ queues = [s \in Symbols |-> <<>>]
  /\ mpc = "off"
  /\ ci = 0
  /\ delivered = <<>>
  /\ ops = MaxOps
  /\ EngineIdle
  /\ SeriesIdle
  /\ ClassIdle
  /\ TrendIdle
  /\ TraderIdle

TailerStep(s) ==
  \/ TExists(s)
  \/ TInitPos(s)
  \/ TPoll(s)
  \/ TRead(s)
  \/ TUnreadable(s)

NextTailer ==
  \E s \in TSrc :
    \/ TailerStep(s)
    \/ \E l \in TLines(s) : PAppend(s, l)
    \/ \E l \in TLines(s) : POverwrite(s, l)
    \/ PTruncate(s)
    \/ PRemove(s)
    \/ \E l \in AlertLines({s}) : PPartial(s, l)
    \/ PComplete(s)

SpecTailer == InitTailer /\ [][NextTailer]_vars

\* ------------------------------------------------------------------ merger
\* mutant of DrainAll: only the first queue of the iteration is drained
DrainFirst(qs, order) ==
  IF order = <<>> THEN <<>> ELSE qs[Head(order)]

\* mutant of DrainAll: every queue is drained newest record first
Reverse(q) == [k \in 1..Len(q) |-> q[Len(q) + 1 - k]]
RECURSIVE DrainNewestFirst(_, _)
DrainNewestFirst(qs, order) ==
  IF order = <<>> THEN <<>>
  ELSE Reverse(qs[Head(order)]) \o DrainNewestFirst(qs, Tail(order))

\* merged_file_stream, lines 64-73: drain every queue, in iteration order
RECURSIVE DrainAll(_, _)
DrainAll(qs, order) ==
  IF order = <<>> THEN <<>>
  ELSE qs[Head(order)] \o DrainAll(qs, Tail(order))

\* mutant of MTick: the batch is yielded whether or not it is empty
MTickAlways ==
  /\ mpc = "run"
  /\ AllAtAwait
  /\ queues' = [s \in Symbols |-> <<>>]
  /\ delivered' = Append(delivered, DrainAll(queues, SymOrder))
  /\ mpc' = "yielded"
  /\ UNCHANGED <<file, tpc, pos, last_ts, emitted, base, hist, settled, trunc, stale, ci, ops>>
  /\ UNCHANGED <<engineVars, seriesVars, classVars, trendVars, traderVars>>

\* merged_file_stream, lines 63-78: one turn of the cadence loop
MTick ==
  /\ mpc = "run"
  /\ AllAtAwait
  /\ LET batch == DrainAll(queues, SymOrder)
     IN /\ queues' = [s \in Symbols |-> <<>>]
        /\ IF batch # <<>>
           THEN /\ delivered' = Append(delivered, batch)
                /\ mpc' = "yielded"
           ELSE UNCHANGED <<delivered, mpc>>
  /\ UNCHANGED <<file, tpc, pos, last_ts, emitted, base, hist, settled, trunc, stale, ci, ops>>
  /\ UNCHANGED <<engineVars, seriesVars, classVars, trendVars, traderVars>>

\* the consumer asks for the next batch: the generator resumes after the
\* yield (line 76) and sleeps (line 78)
MNext ==
  /\ mpc = "yielded"
  /\ AllAtAwait
  /\ mpc' = "run"
  /\ UNCHANGED <<file, tpc, pos, last_ts, emitted, base, hist, settled, trunc, stale,
                 queues, ci, delivered, ops>>
  /\ UNCHANGED <<engineVars, seriesVars, classVars, trendVars, traderVars>>

\* the consumer stops: aclose() at the yield, or cancellation of the consuming
\* task while the generator sleeps; control enters the finally block (line 80)
MStop ==
  /\ mpc \in {"run", "yielded"}
  /\ AllAtAwait
  /\ mpc' = "closing"
  /\ ci' = 1
  /\ UNCHANGED <<file, tpc, pos, last_ts, emitted, base, hist, settled, trunc, stale,
                 queues, delivered, ops>>
  /\ UNCHANGED <<engineVars, seriesVars, classVars, trendVars, traderVars>>

\* merged_file_stream, lines 82-85: t.cancel(); with suppress(CancelledError): await t
\* A task that already ended with an exception re-raises it at the await,
\* and suppress() lets everything but CancelledError through.
MCancel ==
  /\ mpc = "closing"
  /\ AllAtAwait
  /\ IF ci > Len(SymOrder)
     THEN /\ mpc' = "returned"
          /\ UNCHANGED <<tpc, ci>>
     ELSE LET t == SymOrder[ci]
          IN IF tpc[t] = "failed"
             THEN /\ mpc' = "raised"
                  /\ UNCHANGED <<tpc, ci>>
             ELSE /\ tpc' = [tpc EXCEPT ![t] = "cancelled"]
                  /\ ci' = ci + 1
                  /\ UNCHANGED mpc
  /\ UNCHANGED <<file, pos, last_ts, emitted, base, hist, settled, trunc, stale,
                 queues, delivered, ops>>
  /\ UNCHANGED <<engineVars, seriesVars, classVars, trendVars, traderVars>>

\* merged_file_stream has created the tailer tasks (line 60) over the sources F
MergerStart(F) ==
  /\ file \in F
  /\ tpc = [s \in Symbols |-> "start"]
  /\ pos = [s \in Symbols |-> 0]
  /\ last_ts = [s \in Symbols |-> 0]
  /\ emitted = [s \in Symbols |-> <<>>]
  /\ base = [s \in Symbols |-> 0]
  /\ hist = [s \in Symbols |-> {}]
  /\ settled = [s \in Symbols |-> FALSE]
  /\ trunc = [s \in Symbols |-> FALSE]
  /\ stale = [s \in Symbols |-> FALSE]
  /\ queues = [s \in Symbols |-> <<>>]
  /\ mpc = "run"
  /\ ci = 0
  /\ delivered = <<>>
  /\ ops = MaxMOps
  /\ EngineIdle
  /\ SeriesIdle
  /\ ClassIdle
  /\ TrendIdle
  /\ TraderIdle

InitMerger ==
  MergerStart({ f \in [Symbols -> FilesOver(UNION { MLines(s) : s \in Symbols })] :
                  \A s \in Symbols : f[s] \in FilesOver(MLines(s)) })

\* test_file_stream.py main_async: replay_consolidated has emptied every
\* per-symbol file (line 36) before it appends to them
InitReplay ==
  MergerStart({ [s \in Symbols |-> [exists |-> TRUE, lines |-> <<>>]] })

NextMerger ==
  \/ \E s \in Symbols : TailerStep(s)
  \/ \E s \in Symbols : \E l \in MLines(s) : PAppend(s, l)
  \/ \E s \in Symbols : PTruncate(s)
  \/ MTick
  \/ MNext
  \/ MStop
  \/ MCancel

SpecMerger == InitMerger /\ [][NextMerger]_vars

\* an append-only producer (the write of replay_consolidated, lines 51-54)
\* while consume_stream_print drains the merged stream
NextReplay ==
  \/ \E s \in Symbols : TailerStep(s)
  \/ \E s \in Symbols : \E l \in MLines(s) : PAppend(s, l)
  \/ MTick
  \/ MNext
  \/ MStop
  \/ MCancel

\* test_file_stream.py main_async with a symbol whose file does not exist yet
InitWaiting ==
  MergerStart({ [s \in Symbols |-> IF s = SymOrder[1]
                                    THEN [exists |-> TRUE, lines |-> <<>>]
                                    ELSE NoFile] })

\* The event loop wakes every sleeping task again and again (the existence
\* test and the size check are taken whenever the sleep of lines 20 and 50
\* ends, however often another task runs in between), code between two
\* awaits runs to completion, and the consumer keeps asking for batches.
SpecMergerWaiting ==
  /\ InitWaiting
  /\ [][NextReplay]_vars
  /\ \A s \in Symbols : SF_vars(TExists(s)) /\ SF_vars(TPoll(s))
  /\ \A s \in Symbols : WF_vars(TInitPos(s)) /\ WF_vars(TRead(s))
  /\ SF_vars(MTick)
  /\ SF_vars(MNext)

\* Code between two awaits runs to completion (TInitPos, TRead), the event
\* loop wakes the cadence sleep (MTick), and the consumer of this
\* specification keeps asking for the next batch (MNext).
SpecMergerFair ==
  /\ InitReplay
  /\ [][NextReplay]_vars
  /\ \A s \in Symbols : WF_vars(TInitPos(s)) /\ WF_vars(TRead(s))
  /\ WF_vars(MTick)
  /\ WF_vars(MNext)

\* the merger over sources that the replay has emptied (line 36) and that a
\* producer then appends to or empties again
SpecMergerReplay == InitReplay /\ [][NextMerger]_vars

\* ------------------------------------------------------------------ engine
MaxPrice == 5      \* prices are 1..MaxPrice
MaxTicks == 6      \* poll rounds of TradingEngine.run in a run of the engine specification

take_profit_factor_per_trade == 2

Prices == 1..MaxPrice

\* self.manager.symbols(): the symbols the engine trades, in loop order
EngineOrder == <<"A">>
EngineSymbols == { EngineOrder[k] : k \in 1..Len(EngineOrder) }
Sides == {"buy", "sell"}

\* SymbolInfoManager (src/common/symbol_info.py is not part of the sources)
update_current_price(i, p)       == [i EXCEPT !.current_price = p]
update_realized_pnl(i)           == [i EXCEPT !.realized_pnl = @ + i.unrealized_pnl]
set_unrealized_pnl(i, v)         == [i EXCEPT !.unrealized_pnl = v]
update_trade_count(i)            == [i EXCEPT !.trade_count = @ + 1]
update_last_trade_price(i, p)    == [i EXCEPT !.last_trade_price = p]
update_last_trade_side(i, side)  == [i EXCEPT !.last_trade_side = side]
update_expected_trade_side(i, side) == [i EXCEPT !.expected_trade_side = side]

\* profit of the open position at the current price: long while a sell is
\* expected next, short while a buy is expected next
update_unrealized_pnl(i) ==
  [i EXCEPT !.unrealized_pnl =
     IF i.last_trade_price = 0 THEN 0
     ELSE IF i.expected_trade_side = "sell"
          THEN i.current_price - i.last_trade_price
          ELSE i.last_trade_price - i.current_price]

\* the risk policy behind update_is_blocked is pluggable: verdict is what it
\* decides at this call; the flag is never reset
update_is_blocked(i, verdict) == [i EXCEPT !.is_blocked = @ \/ verdict]

\* FilePriceTracker (src/common/price_tracker.py is not part of the sources)
price_changed(pr)  == pr.cur # pr.prev
current_price(pr)  == pr.cur
previous_price(pr) == pr.prev

\* What one call of evaluate_trade cannot decide by itself:
\*   v1, v2: the verdict of update_is_blocked at line 122 and at line 101/144
\*   g1, g2: the first and the second gateway call return (TRUE) or raise (FALSE)
Decisions == [v1 : BOOLEAN, v2 : BOOLEAN, g1 : BOOLEAN, g2 : BOOLEAN]

Outcome(i, sent, raised, br) ==
  [info |-> i, calls |-> sent, raised |-> raised, branch |-> br]

\* mutant of AfterTrade: expected_trade_side is left as it was
AfterTradeKeepsExpected(i, new_price, side, other, d) ==
  LET i1 == update_is_blocked(
              update_last_trade_side(
                update_unrealized_pnl(
                  update_last_trade_price(
                    update_trade_count(update_realized_pnl(i)), new_price)),
                side),
              d.v2)
  IN IF i1.is_blocked
     THEN Outcome(i1, <<side, "exit">>, ~d.g2, side)
     ELSE Outcome(i1, <<side>>, FALSE, side)

\* evaluate_trade, lines 95-114 and 138-157: the updates after the trade alert,
\* the block re-evaluation and the exit alert
AfterTrade(i, new_price, side, other, d) ==
  LET i1 == update_is_blocked(
              update_expected_trade_side(
                update_last_trade_side(
                  update_unrealized_pnl(
                    update_last_trade_price(
                      update_trade_count(update_realized_pnl(i)), new_price)),
                  side),
                other),
              d.v2)
  IN IF i1.is_blocked
     THEN Outcome(i1, <<side, "exit">>, ~d.g2, side)
     ELSE Outcome(i1, <<side>>, FALSE, side)

\* mutant of Bullish: the branch of lines 115-117 also moves last_trade_price
BullishHoldReprices(i, new_price, d) ==
  IF i.last_trade_side # "buy" /\ i.expected_trade_side = "buy"
  THEN IF ~d.g1
       THEN Outcome(i, <<"buy">>, TRUE, "buy")
       ELSE AfterTrade(i, new_price, "buy", "sell", d)
  ELSE Outcome(update_last_trade_side(
                 update_unrealized_pnl(update_last_trade_price(i, new_price)), "buy"),
               <<>>, FALSE, "hold_up")

\* evaluate_trade, lines 76-117: the bullish tick
Bullish(i, new_price, d) ==
  IF i.last_trade_side # "buy" /\ i.expected_trade_side = "buy"
  THEN IF ~d.g1
       THEN Outcome(i, <<"buy">>, TRUE, "buy")     \* send_trade_alert_by_sentiment raises
       ELSE AfterTrade(i, new_price, "buy", "sell", d)
  ELSE Outcome(update_last_trade_side(update_unrealized_pnl(i), "buy"),
               <<>>, FALSE, "hold_up")

\* evaluate_trade, lines 120-160: the bearish tick
Bearish(i, new_price, d) ==
  LET i1 == update_is_blocked(i, d.v1)
  IN IF i1.last_trade_side # "sell" /\ i1.expected_trade_side = "sell"
     THEN IF ~d.g1
          THEN Outcome(i1, <<"sell">>, TRUE, "sell")
          ELSE AfterTrade(i1, new_price, "sell", "buy", d)
     ELSE Outcome(update_last_trade_side(update_unrealized_pnl(i1), "sell"),
                  <<>>, FALSE, "hold_down")

\* mutant of TakeProfitDue: the threshold itself does not trigger the rule
TakeProfitDueGt(i) == i.unrealized_pnl > take_profit_factor_per_trade

\* evaluate_trade, line 66: the take-profit test
TakeProfitDue(i) == i.unrealized_pnl >= take_profit_factor_per_trade

\* evaluate_trade, lines 67-69: the take-profit rule
TakeProfit(i) ==
  update_is_blocked(set_unrealized_pnl(update_realized_pnl(i), 0), TRUE)

\* mutant of BullishTick: the first price counts as an uptick
BullishTickNoBaseline(new_price, old_price) == new_price > old_price

\* evaluate_trade, line 76
BullishTick(new_price, old_price) == new_price > old_price /\ old_price # 0

\* evaluate_trade, line 120
BearishTick(new_price, old_price) == new_price < old_price /\ old_price # 0

\* evaluate_trade, lines 54-176
evaluate_trade(i, pr, d) ==
  IF ~price_changed(pr) THEN Outcome(i, <<>>, FALSE, "unchanged")
  ELSE LET new_price == current_price(pr)
           old_price == previous_price(pr)
           i0        == update_current_price(i, new_price)
       IN IF TakeProfitDue(i)
          THEN Outcome(TakeProfit(i0), <<>>, FALSE, "take_profit")
          ELSE IF ~i.is_blocked
               THEN IF BullishTick(new_price, old_price)
                    THEN Bullish(i0, new_price, d)
                    ELSE IF BearishTick(new_price, old_price)
                         THEN Bearish(i0, new_price, d)
                         ELSE Outcome(i0, <<>>, FALSE, "baseline")
               ELSE Outcome(i0, <<>>, FALSE, "blocked")

\* the scenario monitor after a poll that brings price np
ScenNext(sc, np) ==
  IF sc.k = 0 THEN [k |-> 1, p1 |-> np]
  ELSE IF sc.k = 1 /\ np > sc.p1 THEN [k |-> 2, p1 |-> sc.p1]
  ELSE IF sc.k = 2 /\ np < sc.p1 THEN [k |-> 3, p1 |-> 0]
  ELSE [k |-> -1, p1 |-> 0]

\* run, line 184: self.price_tracker.poll()
EPoll ==
  /\ epc = "poll"
  /\ ticks > 0
  /\ \E np \in [EngineSymbols -> Prices] :
       /\ price' = [s \in Symbols |->
                      IF s \in EngineSymbols
                      THEN [cur |-> np[s], prev |-> price[s].cur]
                      ELSE price[s]]
       /\ scen' = [s \in Symbols |->
                     IF s \in EngineSymbols THEN ScenNext(scen[s], np[s]) ELSE scen[s]]
  /\ epc' = "loop"
  /\ ei' = 1
  /\ ticks' = ticks - 1
  /\ UNCHANGED <<info, calls, branch>>
  /\ UNCHANGED <<streamVars, seriesVars, classVars, trendVars, traderVars>>

AtSymbol(s) == epc = "loop" /\ ei <= Len(EngineOrder) /\ EngineOrder[ei] = s

\* mutant of ESkip: the loop re-evaluates the block rule of a blocked symbol
\* and stores a verdict that is no longer "blocked"
ESkipRefresh(s) ==
  /\ AtSymbol(s)
  /\ info[s].is_blocked
  /\ info' = [info EXCEPT ![s].is_blocked = FALSE]
  /\ ei' = ei + 1
  /\ UNCHANGED <<price, calls, branch, epc, ticks, scen>>
  /\ UNCHANGED <<streamVars, seriesVars, classVars, trendVars, traderVars>>

\* run, lines 188-192: a blocked symbol is skipped
ESkip(s) ==
  /\ AtSymbol(s)
  /\ info[s].is_blocked
  /\ ei' = ei + 1
  /\ UNCHANGED <<price, info, calls, branch, epc, ticks, scen>>
  /\ UNCHANGED <<streamVars, seriesVars, classVars, trendVars, traderVars>>

\* run, lines 194-195: self.evaluate_trade(symbol); an exception of the
\* gateway call leaves run (only KeyboardInterrupt is caught, line 201)
EEvaluate(s) ==
  /\ AtSymbol(s)
  /\ ~info[s].is_blocked
  /\ \E d \in Decisions :
       LET r == evaluate_trade(info[s], price[s], d)
       IN /\ info'   = [info EXCEPT ![s] = r.info]
          /\ calls'  = [calls EXCEPT ![s] = @ \o r.calls]
          /\ branch' = [branch EXCEPT ![s] = r.branch]
          /\ IF r.raised
             THEN epc' = "crashed" /\ UNCHANGED ei
             ELSE ei' = ei + 1 /\ UNCHANGED epc
  /\ UNCHANGED <<price, ticks, scen>>
  /\ UNCHANGED <<streamVars, seriesVars, classVars, trendVars, traderVars>>

\* mutant of RunSymbol: neither run nor evaluate_trade tests is_blocked
RunSymbolUnguarded(s) ==
  /\ AtSymbol(s)
  /\ \E d \in Decisions :
       LET r == evaluate_trade([info[s] EXCEPT !.is_blocked = FALSE], price[s], d)
       IN /\ info'   = [info EXCEPT ![s] = update_is_blocked(r.info, info[s].is_blocked)]
          /\ calls'  = [calls EXCEPT ![s] = @ \o r.calls]
          /\ branch' = [branch EXCEPT ![s] = r.branch]
          /\ IF r.raised
             THEN epc' = "crashed" /\ UNCHANGED ei
             ELSE ei' = ei + 1 /\ UNCHANGED epc
  /\ UNCHANGED <<price, ticks, scen>>
  /\ UNCHANGED <<streamVars, seriesVars, classVars, trendVars, traderVars>>

\* run, lines 187-195: one iteration of the for loop
RunSymbol(s) == ESkip(s) \/ EEvaluate(s)

\* run, lines 197-199: the for loop is over, sleep until the next poll
ESleep ==
  /\ epc = "loop"
  /\ ei > Len(EngineOrder)
  /\ epc' = "poll"
  /\ UNCHANGED <<price, info, calls, branch, ei, ticks, scen>>
  /\ UNCHANGED <<streamVars, seriesVars, classVars, trendVars, traderVars>>

StreamIdle ==
  /\ file = [s \in Symbols |-> NoFile]
  /\ tpc = [s \in Symbols |-> "off"]
  /\ pos = [s \in Symbols |-> 0]
  /\ last_ts = [s \in Symbols |-> 0]
  /\ emitted = [s \in Symbols |-> <<>>]
  /\ base = [s \in Symbols |-> 0]
  /\ hist = [s \in Symbols |-> {}]
  /\ settled = [s \in Symbols |-> FALSE]
  /\ trunc = [s \in Symbols |-> FALSE]
  /\ stale = [s \in Symbols |-> FALSE]
  /\ queues = [s \in Symbols |-> <<>>]
  /\ mpc = "off"
  /\ ci = 0
  /\ delivered = <<>>
  /\ ops = 0

InitEngine ==
  /\ StreamIdle
  /\ SeriesIdle
  /\ ClassIdle
  /\ TrendIdle
  /\ TraderIdle
  /\ price = [s \in Symbols |-> [cur |-> 0, prev |-> 0]]
  /\ info \in { f \in [Symbols -> {NewInfo(e) : e \in Sides}] :
                 \A s \in Symbols \ EngineSymbols : f[s] = NewInfo("buy") }
  /\ calls = [s \in Symbols |-> <<>>]
  /\ branch = [s \in Symbols |-> "none"]
  /\ epc = "poll"
  /\ ei = 0
  /\ ticks = MaxTicks
  /\ scen = [s \in Symbols |->
               IF s \in EngineSymbols /\ info[s].expected_trade_side = "buy"
               THEN [k |-> 0, p1 |-> 0] ELSE [k |-> -1, p1 |-> 0]]

NextEngine ==
  \/ EPoll
  \/ \E s \in EngineSymbols : RunSymbol(s)
  \/ ESleep

SpecEngine == InitEngine /\ [][NextEngine]_vars

\* ------------------------------------------------------------------ indicator series
DefaultMaxlen == 2   \* stands for the 200 of indicators.py lines 8-10
MaxCap        == 3   \* the maxlen passed to IndicatorSeries(...) is 1..MaxCap
MaxVal        == 2   \* values are 1..MaxVal
MaxUpdates    == 5   \* updates in a run of the series specification

Min(a, b) == IF a < b THEN a ELSE b

\* collections.deque(maxlen=cap).append(x)
DequeAppend(q, x, cap) == IF Len(q) >= cap THEN Append(Tail(q), x) ELSE Append(q, x)

\* the slice q[-n:] of a Python list, n > 0
LastN(q, n) == SubSeq(q, Len(q) - Min(n, Len(q)) + 1, Len(q))

\* IndicatorSeries(maxlen=cap): the dataclass stores cap in the field maxlen;
\* the default factories of values and timestamps build deque(maxlen=200)
IndicatorSeries(cap) == [maxlen |-> cap, values |-> <<>>, timestamps |-> <<>>]

\* IndicatorSeries.update, lines 12-14
update(sr, value, ts) ==
  [sr EXCEPT !.values = DequeAppend(@, value, DefaultMaxlen),
             !.timestamps = DequeAppend(@, ts, DefaultMaxlen)]

\* IndicatorSeries.current, lines 16-17 (0 = None)
current(sr) == IF sr.values # <<>> THEN sr.values[Len(sr.values)] ELSE 0

\* mutant of prev: counts from the oldest retained value
prevFromOldest(sr, n) ==
  IF n <= 0 \/ n > Len(sr.values) THEN 0
  ELSE sr.values[n]

\* IndicatorSeries.prev, lines 19-21 (0 = None)
prev(sr, n) ==
  IF n <= 0 \/ n > Len(sr.values) THEN 0
  ELSE sr.values[Len(sr.values) - n + 1]

\* IndicatorSeries.last_n, lines 23-25
last_n(sr, n) == IF n <= 0 THEN <<>> ELSE LastN(sr.values, n)

SUpdate(value) ==
  /\ Len(inserted) < MaxUpdates
  /\ series' = update(series, value, Len(inserted) + 1)
  /\ inserted' = Append(inserted, value)
  /\ UNCHANGED <<streamVars, engineVars, classVars, trendVars, traderVars>>

InitSeries ==
  /\ StreamIdle
  /\ EngineIdle
  /\ ClassIdle
  /\ TrendIdle
  /\ TraderIdle
  /\ series \in { IndicatorSeries(cap) : cap \in 1..MaxCap }
  /\ inserted = <<>>

NextSeries == \E value \in 1..MaxVal : SUpdate(value)

SpecSeries == InitSeries /\ [][NextSeries]_vars


\* ------------------------------------------------------------------ trend heuristics
MaxInd == 3          \* price and the three averages of a record are 1..MaxInd

Recs == [price : 1..MaxInd, sma20 : 1..MaxInd, ema20 : 1..MaxInd, ema9 : 1..MaxInd]

\* trends.py line 11
is_downtrend(r) == r.sma20 > r.ema20 /\ r.ema20 > r.ema9

is_uptrendNonStrict(r) == r.sma20 =< r.ema20 /\ r.ema20 =< r.ema9

\* trends.py line 12
is_uptrend(r) == r.sma20 < r.ema20 /\ r.ema20 < r.ema9

\* trends.py lines 15-18 ("None" = None)
trend_of(r) ==
  IF is_uptrend(r) THEN "UP"
  ELSE IF is_downtrend(r) THEN "DOWN"
  ELSE "None"

derive_trendNoPrice(pr, ema9, ema20, sma20) ==
  IF ema9 > ema20 /\ ema20 > sma20 THEN "uptrend"
  ELSE IF ema9 < ema20 /\ ema20 < sma20 THEN "downtrend"
  ELSE "neutral"

\* stream_trader.py lines 43-49
derive_trend(pr, ema9, ema20, sma20) ==
  IF ema9 > ema20 /\ ema20 > sma20 /\ pr >= ema9 THEN "uptrend"
  ELSE IF ema9 < ema20 /\ ema20 < sma20 /\ pr =< ema9 THEN "downtrend"
  ELSE "neutral"

\* both heuristics applied to the record
Classify ==
  /\ ctrend = "unset"
  /\ ctrend' = trend_of(crec)
  /\ cderived' = derive_trend(crec.price, crec.ema9, crec.ema20, crec.sma20)
  /\ UNCHANGED <<crec, streamVars, engineVars, seriesVars, trendVars, traderVars>>

InitClassify ==
  /\ StreamIdle
  /\ EngineIdle
  /\ SeriesIdle
  /\ TrendIdle
  /\ TraderIdle
  /\ crec \in Recs
  /\ ctrend = "unset"
  /\ cderived = "unset"

NextClassify == Classify

SpecClassify == InitClassify /\ [][NextClassify]_vars

\* ------------------------------------------------------------------ position state machine
MaxHSteps == 3       \* handle_trend calls in a run of the position specification

Trends == {"UP", "DOWN", "None"}

\* whether the first and the second broker call of a step return (TRUE) or raise
BrokerOutcomes == [g1 : BOOLEAN, g2 : BOOLEAN]

\* mutant of DesiredSide: the two sides are swapped
DesiredSideSwapped(trend) == IF trend = "UP" THEN "PUT" ELSE "CALL"

\* trends.py line 85
DesiredSide(trend) == IF trend = "UP" THEN "CALL" ELSE "PUT"

\* the broker method of lines 88 and 102
BuyMethod(side) == IF side = "CALL" THEN "buy_call" ELSE "buy_put"

\* mutant of handle_trend: a call that raises takes the assignments that
\* follow it with it (side and last_trend are set before the broker is called)
handle_trendAssignsFirst(trend, state, reenter_on_reverse, g) ==
  IF trend = "None"
  THEN [state |-> [state EXCEPT !.last_trend = "None"], calls |-> <<>>, label |-> "NO_TREND"]
  ELSE LET desired_side == DesiredSide(trend) IN
    IF state.side = "None"
    THEN [state |-> [side |-> desired_side, last_trend |-> trend],
          calls |-> <<BuyMethod(desired_side)>>,
          label |-> IF ~g.g1 THEN "RAISED"
                    ELSE IF desired_side = "CALL" THEN "OPENED_CALL" ELSE "OPENED_PUT"]
    ELSE IF state.side = desired_side
    THEN [state |-> [state EXCEPT !.last_trend = trend], calls |-> <<>>, label |-> "HELD"]
    ELSE IF ~g.g1
    THEN [state |-> [state EXCEPT !.side = "None"],
          calls |-> <<"exit_position">>, label |-> "RAISED"]
    ELSE IF ~reenter_on_reverse
    THEN [state |-> [side |-> "None", last_trend |-> trend],
          calls |-> <<"exit_position">>, label |-> "REVERSED_EXITED"]
    ELSE [state |-> [side |-> desired_side, last_trend |-> trend],
          calls |-> <<"exit_position", BuyMethod(desired_side)>>,
          label |-> IF g.g2 THEN "REVERSED_EXITED_OPENED" ELSE "RAISED"]

\* trends.py lines 72-104: the state after the call, the broker methods it
\* called and what it returned; a broker method that raises ends the call
\* with the assignments made so far
handle_trend(trend, state, reenter_on_reverse, g) ==
  IF trend = "None"
  THEN [state |-> [state EXCEPT !.last_trend = "None"], calls |-> <<>>, label |-> "NO_TREND"]
  ELSE LET desired_side == DesiredSide(trend) IN
    IF state.side = "None"
    THEN IF g.g1
         THEN [state |-> [side |-> desired_side, last_trend |-> trend],
               calls |-> <<BuyMethod(desired_side)>>,
               label |-> IF desired_side = "CALL" THEN "OPENED_CALL" ELSE "OPENED_PUT"]
         ELSE [state |-> state, calls |-> <<BuyMethod(desired_side)>>, label |-> "RAISED"]
    ELSE IF state.side = desired_side
    THEN [state |-> [state EXCEPT !.last_trend = trend], calls |-> <<>>, label |-> "HELD"]
    ELSE IF ~g.g1
    THEN [state |-> state, calls |-> <<"exit_position">>, label |-> "RAISED"]
    ELSE IF ~reenter_on_reverse
    THEN [state |-> [side |-> "None", last_trend |-> trend],
          calls |-> <<"exit_position">>, label |-> "REVERSED_EXITED"]
    ELSE IF g.g2
    THEN [state |-> [side |-> desired_side, last_trend |-> trend],
          calls |-> <<"exit_position", BuyMethod(desired_side)>>,
          label |-> "REVERSED_EXITED_OPENED"]
    ELSE [state |-> [state EXCEPT !.side = "None"],
          calls |-> <<"exit_position", BuyMethod(desired_side)>>, label |-> "RAISED"]

\* one call of handle_trend on the PositionState of the run
HandleTrend(trend, g) ==
  /\ hsteps > 0
  /\ LET r == handle_trend(trend, pstate, reenter, g) IN
       /\ pstate' = r.state
       /\ bcalls' = bcalls \o r.calls
       /\ bdone'  = bdone \o (IF r.label = "RAISED"
                               THEN SubSeq(r.calls, 1, Len(r.calls) - 1)
                               ELSE r.calls)
       /\ hlabel' = r.label
  /\ htrend' = IF trend = "None" THEN htrend ELSE trend
  /\ hsteps' = hsteps - 1
  /\ UNCHANGED <<reenter, streamVars, engineVars, seriesVars, classVars, traderVars>>

InitTrend ==
  /\ StreamIdle
  /\ EngineIdle
  /\ SeriesIdle
  /\ ClassIdle
  /\ TraderIdle
  /\ pstate = [side |-> "None", last_trend |-> "None"]
  /\ bcalls = <<>>
  /\ bdone = <<>>
  /\ htrend = "None"
  /\ hlabel = "none"
  /\ hsteps = MaxHSteps
  /\ reenter \in BOOLEAN

NextTrend == \E trend \in Trends, g \in BrokerOutcomes : HandleTrend(trend, g)

SpecTrend == InitTrend /\ [][NextTrend]_vars

\* ------------------------------------------------------------------ streaming trader
MaxRecs == 3         \* records delivered in a run of the trader specification

\* stream_trader.py lines 55-69: the action of the signal and its extras["trend"]
\* (prev_trend "none" = last_trend has no entry)
criteria_stacked(r, prev_trend) ==
  LET trend == derive_trend(r.price, r.ema9, r.ema20, r.sma20) IN
    IF prev_trend # "none" /\ trend # prev_trend /\ prev_trend \in {"uptrend", "downtrend"}
    THEN [action |-> "EXIT", trend |-> trend]
    ELSE IF trend = "uptrend" THEN [action |-> "BUY_CALL", trend |-> trend]
    ELSE IF trend = "downtrend" THEN [action |-> "BUY_PUT", trend |-> trend]
    ELSE [action |-> "HOLD", trend |-> trend]

\* price_alerts.py lines 310-327 with on_update = _on_update of
\* stream_trader.py lines 154-180: a new record of sym is handed to
\* _on_update, whose exceptions are swallowed
TOnUpdate(sym, r) ==
  /\ trun = "run"
  /\ tleft > 0
  /\ tleft' = tleft - 1
  /\ IF sym \notin assets
     THEN /\ skipped' = Append(skipped, sym)
          /\ UNCHANGED <<tlast, signals>>
     ELSE LET signal == criteria_stacked(r, tlast[sym]) IN
          /\ tlast' = IF signal.action # "HOLD"
                      THEN [tlast EXCEPT ![sym] = signal.trend]
                      ELSE tlast
          /\ signals' = Append(signals, [symbol |-> sym, action |-> signal.action])
          /\ UNCHANGED skipped
  /\ UNCHANGED <<assets, trun>>
  /\ UNCHANGED <<streamVars, engineVars, seriesVars, classVars, trendVars>>

InitTrader ==
  /\ StreamIdle
  /\ EngineIdle
  /\ SeriesIdle
  /\ ClassIdle
  /\ TrendIdle
  /\ assets \in SUBSET Symbols
  /\ tlast = [s \in Symbols |-> "none"]
  /\ signals = <<>>
  /\ skipped = <<>>
  /\ trun = "run"
  /\ tleft = MaxRecs

NextTrader == \E sym \in Symbols, r \in Recs : TOnUpdate(sym, r)

SpecTrader == InitTrader /\ [][NextTrader]_vars

\* ------------------------------------------------------------------ tailer claims
Last(q) == q[Len(q)]
Range(q) == { q[i] : i \in 1..Len(q) }
StrictlyIncreasing(q) == \A i \in 1..(Len(q) - 1) : q[i] < q[i + 1]

\* C1: for every source the timestamps yielded by follow() are strictly
\* increasing and the watermark is the last yielded timestamp, so no record
\* with a timestamp at or below the watermark is ever yielded, whatever the
\* producer does to the source (append, truncate, rewrite, remove).
C1_StrictlyIncreasing ==
  \A s \in Symbols :
    /\ StrictlyIncreasing(emitted[s])
    /\ last_ts[s] = IF emitted[s] = <<>> THEN 0 ELSE Last(emitted[s])

\* C1 witness: after a truncation, rewrite or removal the tailer has re-read a
\* record at or below the watermark and dropped it, having yielded before.
C1_Witness ==
  \E s \in Symbols :
    /\ stale[s]
    /\ emitted[s] # <<>>
    /\ hist[s] \cap {"truncate", "overwrite", "remove"} # {}

\* C7: under overwrite-latest (the only producer operation since follow()
\* took its position is the replacement of the source by one record), once a
\* poll tick has ended after the replacement the live tailer has yielded the
\* record unless its timestamp was at or below the watermark.
C7_OverwriteLatest ==
  \A s \in Symbols :
    ( /\ tpc[s] = "poll"
      /\ settled[s]
      /\ hist[s] = {"overwrite"}
      /\ file[s].exists
      /\ Len(file[s].lines) = 1
      /\ file[s].lines[1].kind = "alert"
      /\ file[s].lines[1].sym = s )
    => file[s].lines[1].ts <= last_ts[s]

\* the lines of ls that follow() yields when it reads them whole, in order,
\* starting from watermark w
RECURSIVE Expected(_, _, _)
Expected(ls, w, sym) ==
  IF ls = <<>> THEN <<>>
  ELSE LET l == Head(ls)
       IN IF l.kind = "alert" /\ l.sym = sym /\ (w = 0 \/ l.ts > w)
          THEN <<l.ts>> \o Expected(Tail(ls), l.ts, sym)
          ELSE Expected(Tail(ls), w, sym)

\* C8: under append-history (the only producer operation since follow() took
\* its position is the append of whole lines), once a poll tick has ended
\* after the last append every appended line that parses, carries the symbol
\* and is above the watermark has been yielded exactly once, in append order.
C8_AppendHistory ==
  \A s \in Symbols :
    ( /\ tpc[s] \in {"poll", "failed"}
      /\ base[s] <= Len(file[s].lines)
      /\ settled[s]
      /\ hist[s] = {"append"} )
    => emitted[s] =
         Expected(SubSeq(file[s].lines, base[s] + 1, Len(file[s].lines)), 0, s)

\* C9: a size check that finds size < _pos sets _pos to 0, and the read that
\* follows starts at offset 0 and leaves _pos at the end of the source.
C9_TruncationReplay ==
  [][ \A s \in Symbols :
        /\ (TPoll(s) /\ file[s].exists /\ Size(file[s].lines) < pos[s])
             => pos'[s] = 0
        /\ (TRead(s) /\ file[s].exists /\ trunc[s])
             => (pos[s] = 0 /\ pos'[s] = Size(file[s].lines)) ]_vars

\* ------------------------------------------------------------------ merger claims
RECURSIVE Flatten(_)
Flatten(bs) == IF bs = <<>> THEN <<>> ELSE Head(bs) \o Flatten(Tail(bs))

RECURSIVE OfSymbol(_, _)
OfSymbol(rs, s) ==
  IF rs = <<>> THEN <<>>
  ELSE IF Head(rs).sym = s THEN <<Head(rs).ts>> \o OfSymbol(Tail(rs), s)
       ELSE OfSymbol(Tail(rs), s)

MergerDone == mpc \in {"returned", "raised"}

\* C5: once merged_file_stream has left its finally block, every tailer task
\* has terminated: none is still polling or about to start.
C5_ShutdownStopsAllTailers ==
  MergerDone => \A s \in Symbols : tpc[s] \in {"cancelled", "failed"}

\* every record yielded by a tailer is, in order and exactly once, either in
\* a delivered batch or still on its queue
NoLossNoDup ==
  \A s \in Symbols : OfSymbol(Flatten(delivered), s) \o OfSymbol(queues[s], s) = emitted[s]

\* C6: no record put on a queue is lost or delivered twice, and while the
\* consumer keeps draining every queued record is eventually delivered.
C6_EveryRecordDeliveredOnce ==
  /\ []NoLossNoDup
  /\ \A s \in Symbols :
       (queues[s] # <<>>) ~> (queues[s] = <<>> \/ mpc \notin {"run", "yielded"})

\* C6 witness: records of both symbols were delivered, one batch holding two
C6_Witness ==
  /\ \E i \in 1..Len(delivered) : Len(delivered[i]) >= 2
  /\ \A s \in Symbols : emitted[s] # <<>> /\ queues[s] = <<>>

\* ------------------------------------------------------------------ engine claims
\* the calls made for s by the step from the current to the next state
NewCalls(s) == SubSeq(calls'[s], Len(calls[s]) + 1, Len(calls'[s]))
Count(q, x) == Cardinality({ k \in 1..Len(q) : q[k] = x })
Uptick(s)   == price[s].prev # 0 /\ price[s].cur > price[s].prev
Downtick(s) == price[s].prev # 0 /\ price[s].cur < price[s].prev

\* C2: a step emits an EXIT for a symbol exactly when it takes is_blocked of
\* that symbol from false to true, and then it emits exactly one.
C2_ExitExactlyOnBlocking ==
  [][ \A s \in EngineSymbols :
        Count(NewCalls(s), "exit") =
          IF ~info[s].is_blocked /\ info'[s].is_blocked THEN 1 ELSE 0 ]_vars

\* C3: once is_blocked holds for a symbol no step hands a BUY, SELL or EXIT
\* for it to the gateway, whatever prices the later polls bring.
C3_NoSignalOnceBlocked ==
  [][ \A s \in EngineSymbols : info[s].is_blocked => calls'[s] = calls[s] ]_vars

\* C3 witness: a blocked symbol whose price moved at a later poll was passed
\* over by the loop (its SymbolInfo still holds the older price).
C3_Witness ==
  \E s \in EngineSymbols :
    /\ info[s].is_blocked
    /\ epc = "loop" /\ ei > Len(EngineOrder)
    /\ price_changed(price[s])
    /\ info[s].current_price # price[s].cur
    /\ calls[s] # <<>>

\* C4: the evaluation of an uptick on an unblocked symbol with a known
\* previous price, last_trade_side # BUY and expected_trade_side = BUY emits
\* exactly one BUY, adds one to trade_count, sets last_trade_price to the new
\* price and ends with last_trade_side = BUY, expected_trade_side = SELL.
C4_BuyOnUptick ==
  [][ \A s \in EngineSymbols :
        ( /\ EEvaluate(s)
          /\ Uptick(s)
          /\ info[s].last_trade_side # "buy"
          /\ info[s].expected_trade_side = "buy" )
        => /\ Count(NewCalls(s), "buy") = 1
           /\ Count(NewCalls(s), "sell") = 0
           /\ info'[s].trade_count = info[s].trade_count + 1
           /\ info'[s].last_trade_price = price[s].cur
           /\ info'[s].last_trade_side = "buy"
           /\ info'[s].expected_trade_side = "sell" ]_vars

C11_FailedDeliveryKeepsTrade ==
  [][ \A s \in EngineSymbols :
        ( /\ EEvaluate(s)
          /\ epc' = "crashed"
          /\ NewCalls(s) # <<>>
          /\ Last(NewCalls(s)) \in Sides )
        => /\ info'[s].trade_count = info[s].trade_count + 1
           /\ info'[s].last_trade_price = price[s].cur
           /\ info'[s].last_trade_side = Last(NewCalls(s))
           /\ info'[s].expected_trade_side # Last(NewCalls(s)) ]_vars

\* the symbol has been dealt with in the current poll round
Evaluated(s) ==
  \/ epc = "poll"
  \/ epc = "loop" /\ \E k \in 1..Len(EngineOrder) : EngineOrder[k] = s /\ ei > k

ScenarioCalls(k) == SubSeq(<<"buy", "sell">>, 1, k - 1)

\* C12: a fresh symbol that expects a BUY and is polled at a first price, a
\* higher one and one below the first, and that the block rule leaves alone,
\* is evaluated at each of them and has then been sent nothing, a BUY, and a
\* BUY followed by a SELL.
C12_BaselineBuySell ==
  \A s \in EngineSymbols :
    (scen[s].k \in 1..3 /\ ~info[s].is_blocked)
    => /\ epc # "crashed"
       /\ Evaluated(s) => calls[s] = ScenarioCalls(scen[s].k)

\* C13: the evaluation of the first price of a symbol (no previous price)
\* hands nothing to the gateway, whatever the price and the sides are.
C13_FirstPriceNoSignal ==
  [][ \A s \in EngineSymbols :
        (EEvaluate(s) /\ previous_price(price[s]) = 0) => calls'[s] = calls[s] ]_vars

\* C13 witness: a first price was evaluated as the baseline of a symbol that
\* expects a SELL, and nothing was sent.
C13_Witness ==
  \E s \in EngineSymbols :
    /\ branch[s] = "baseline"
    /\ price[s].prev = 0 /\ price[s].cur # 0
    /\ info[s].current_price = price[s].cur
    /\ info[s].expected_trade_side = "sell"
    /\ calls[s] = <<>>

\* the mirror image of a state of the position state machine: BUY and SELL
\* swapped, prices reflected so that an uptick becomes a downtick
Flip(side) == IF side = "buy" THEN "sell" ELSE IF side = "sell" THEN "buy" ELSE side
MirrorP(p) == IF p = 0 THEN 0 ELSE MaxPrice + 1 - p
MirrorPrice(pr) == [cur |-> MirrorP(pr.cur), prev |-> MirrorP(pr.prev)]
MirrorInfo(i) ==
  [i EXCEPT !.last_trade_side = Flip(@), !.expected_trade_side = Flip(@),
            !.last_trade_price = MirrorP(@), !.current_price = MirrorP(@)]
MirrorBranch(b) ==
  IF b = "hold_up" THEN "hold_down" ELSE IF b = "hold_down" THEN "hold_up" ELSE Flip(b)
MirrorOutcome(o) ==
  [info |-> MirrorInfo(o.info), calls |-> [k \in DOMAIN o.calls |-> Flip(o.calls[k])],
   raised |-> o.raised, branch |-> MirrorBranch(o.branch)]

\* C14: whenever the loop is about to evaluate an uptick, evaluating the
\* mirrored state on the mirrored downtick gives, for every verdict of the
\* block rule and every outcome of the deliveries, the mirrored signals and
\* the mirrored state.
C14_DowntickMirrorsUptick ==
  \A s \in EngineSymbols :
    (AtSymbol(s) /\ ~info[s].is_blocked /\ Uptick(s))
    => \A d \in Decisions :
         evaluate_trade(MirrorInfo(info[s]), MirrorPrice(price[s]), d)
           = MirrorOutcome(evaluate_trade(info[s], price[s], d))

\* C15: no step of the engine takes is_blocked of a symbol from true to false.
C15_BlockedIsMonotonic ==
  [][ \A s \in Symbols : info[s].is_blocked => info'[s].is_blocked ]_vars

\* C15 witness: a symbol blocked in an earlier poll round has been through a
\* whole later round, with a new price, and is still blocked.
C15_Witness ==
  \E s \in EngineSymbols :
    /\ info[s].is_blocked
    /\ epc = "poll"
    /\ info[s].current_price \notin {price[s].cur, price[s].prev}

\* C16: in the concatenation of all delivered batches the records of one
\* symbol are those its tailer yielded so far, in the order it yielded them,
\* which is strictly increasing timestamp order.
C16_PerSymbolOrder ==
  \A s \in Symbols :
    LET got == OfSymbol(Flatten(delivered), s)
    IN /\ StrictlyIncreasing(got)
       /\ Len(got) <= Len(emitted[s])
       /\ got = SubSeq(emitted[s], 1, Len(got))

\* C16 witness: two successive batches each delivered a record of the same
\* symbol.
C16_Witness ==
  \E s \in Symbols :
    /\ Len(delivered) >= 2
    /\ OfSymbol(delivered[1], s) # <<>>
    /\ OfSymbol(delivered[2], s) # <<>>

\* ------------------------------------------------------------------ tailer claims (2)
\* what a read of ls from cursor p with watermark w yields when every line that
\* cannot be turned into a record is skipped
RECURSIVE YieldSkipping(_, _, _, _, _)
YieldSkipping(ls, off, p, w, sym) ==
  IF ls = <<>> THEN <<>>
  ELSE LET l == Head(ls)
           next == off + l.len
       IN IF off >= p /\ l.kind = "alert" /\ l.sym = sym /\ (w = 0 \/ l.ts > w)
          THEN <<l.ts>> \o YieldSkipping(Tail(ls), next, p, l.ts, sym)
          ELSE YieldSkipping(Tail(ls), next, p, w, sym)

\* C18: a read leaves the tailer running with its cursor at or past the end
\* of the source, and has yielded the records after the cursor as if every
\* line that cannot be turned into a record were not there.
C18_UnparsableLineSkipped ==
  [][ \A s \in Symbols :
        (TRead(s) /\ file[s].exists)
        => /\ tpc'[s] = "poll"
           /\ pos'[s] >= Size(file[s].lines)
           /\ emitted'[s] = emitted[s] \o
                YieldSkipping(file[s].lines, 0, pos[s], last_ts[s], s) ]_vars

\* C19: a size check or a read that finds the source missing yields nothing,
\* leaves cursor and watermark alone and leaves the tailer at its poll.
C19_MissingSourceRetried ==
  [][ \A s \in Symbols :
        ((TPoll(s) \/ TRead(s)) /\ ~file[s].exists)
        => /\ emitted'[s] = emitted[s]
           /\ pos'[s] = pos[s]
           /\ last_ts'[s] = last_ts[s]
           /\ queues'[s] = queues[s]
           /\ tpc'[s] = "poll" ]_vars

\* C19 witness: the source was removed after the tailer had yielded from it,
\* and a poll tick has passed over the missing source.
C19_Witness ==
  \E s \in Symbols :
    /\ tpc[s] = "poll"
    /\ ~file[s].exists
    /\ settled[s]
    /\ "remove" \in hist[s]
    /\ emitted[s] # <<>>
    /\ pos[s] > 0

IsPrefix(a, b) == Len(a) <= Len(b) /\ a = SubSeq(b, 1, Len(a))

\* C20: while the source has only grown since follow() took its position,
\* everything yielded comes, in order, from the lines appended after that.
C20_StartsAtEnd ==
  \A s \in Symbols :
    ( /\ tpc[s] \in {"poll", "read", "failed", "cancelled"}
      /\ hist[s] \subseteq {"append"}
      /\ base[s] <= Len(file[s].lines) )
    => IsPrefix(emitted[s],
                Expected(SubSeq(file[s].lines, base[s] + 1, Len(file[s].lines)), 0, s))

\* C20 witness: the source held a record of the symbol when follow() took its
\* position, a record appended later was yielded, the first one was not.
C20_Witness ==
  \E s \in Symbols :
    /\ tpc[s] = "poll"
    /\ settled[s]
    /\ hist[s] = {"append"}
    /\ base[s] = 1
    /\ file[s].lines[1].kind = "alert" /\ file[s].lines[1].sym = s
    /\ Len(emitted[s]) = 1

\* ------------------------------------------------------------------ series claims
\* C17: a series constructed with capacity K holds, after m updates, exactly
\* the min(m, K) most recent values, and after K + 1 updates last_n(K) is the
\* K most recent values.
C17_RetainsCapacity ==
  LET K == series.maxlen
      m == Len(inserted)
  IN /\ series.values = LastN(inserted, Min(m, K))
     /\ m = K + 1 => last_n(series, K) = LastN(inserted, K)

\* ------------------------------------------------------------------ gateway claims
\* C21: no step hands the order gateway more than one call: an evaluate_trade
\* call sends at most one action for its symbol and a handle_trend call calls
\* at most one broker method.
C21_OneGatewayCallPerStep ==
  [][ /\ \A s \in EngineSymbols : Len(NewCalls(s)) <= 1
      /\ Len(bcalls') <= Len(bcalls) + 1 ]_vars

\* C22: an evaluation, whatever its gateway calls do, leaves run in its for
\* loop, from where it goes on to the other symbols and the later polls.
C22_GatewayFailureNotFatal ==
  [][ \A s \in EngineSymbols : EEvaluate(s) => epc' = "loop" ]_vars

\* C23: once a record has arrived for a symbol that has no entry in
\* assets_by_symbol, the run is aborted: the record is not passed over with
\* the run going on.
C23_UnknownSymbolAborts ==
  skipped # <<>> => trun = "aborted"

\* ------------------------------------------------------------------ trend claims
\* C24: trend_of returns UP exactly when sma20 < ema20 < ema9, DOWN exactly
\* when sma20 > ema20 > ema9 and None in every other case, ties included; the
\* two cases exclude each other and the price of the record does not matter.
C24_TrendOfClassifies ==
  ctrend # "unset" =>
    LET up   == crec.sma20 < crec.ema20 /\ crec.ema20 < crec.ema9
        down == crec.sma20 > crec.ema20 /\ crec.ema20 > crec.ema9
    IN /\ ctrend = "UP" <=> up
       /\ ctrend = "DOWN" <=> down
       /\ ctrend = "None" <=> (~up /\ ~down)
       /\ ~(is_uptrend(crec) /\ is_downtrend(crec))
       /\ \A p \in 1..MaxInd : trend_of([crec EXCEPT !.price = p]) = ctrend

\* C24 witness: a record with sma20 = ema20 < ema9 was classified as None.
C24_Witness ==
  /\ ctrend = "None"
  /\ crec.sma20 = crec.ema20
  /\ crec.ema20 < crec.ema9

\* the record is stacked for trend_of and derive_trend does not follow
Disagree(r) ==
  LET d == derive_trend(r.price, r.ema9, r.ema20, r.sma20) IN
    \/ trend_of(r) = "UP" /\ d # "uptrend"
    \/ trend_of(r) = "DOWN" /\ d # "downtrend"

\* C25: some record makes trend_of and derive_trend disagree, and whenever
\* derive_trend says uptrend (downtrend) trend_of says UP (DOWN).
C25_DeriveTrendStricter ==
  /\ \E r \in Recs : Disagree(r)
  /\ cderived = "uptrend" => ctrend = "UP"
  /\ cderived = "downtrend" => ctrend = "DOWN"

\* C25 witness: a record that trend_of classifies as UP and derive_trend as
\* neutral, its price being below ema9.
C25_Witness ==
  /\ ctrend = "UP"
  /\ cderived = "neutral"
  /\ crec.price < crec.ema9

\* ------------------------------------------------------------------ merger claims (2)
\* C26: every batch handed to the consumer holds at least one record, and a
\* turn of the cadence loop that finds every queue empty hands over nothing.
C26_BatchesNonEmpty ==
  [][ /\ \A i \in 1..Len(delivered') : delivered'[i] # <<>>
      /\ (MTick /\ \A s \in Symbols : queues[s] = <<>>)
           => (delivered' = delivered /\ mpc' = "run") ]_vars

\* C26 witness: a batch has been delivered, the consumer has asked for the
\* next one, and the cadence loop is about to turn with every queue empty.
C26_Witness ==
  /\ mpc = "run"
  /\ AllAtAwait
  /\ delivered # <<>>
  /\ \A s \in Symbols : queues[s] = <<>>

\* ------------------------------------------------------------------ series claims (2)
\* C27: with ref the values the series retains, oldest first, current() is
\* the last of ref (absent when ref is empty), prev(n) is the n-th value from
\* the end of ref (absent when n <= 0 or n > Len(ref)), so prev(1) is
\* current(), and last_n(n) is the last min(n, Len(ref)) values of ref in
\* their order (empty when n <= 0).
C27_AccessorsAgree ==
  LET L   == Len(series.values)
      ref == SubSeq(inserted, Len(inserted) - L + 1, Len(inserted))
  IN /\ current(series) = IF L = 0 THEN 0 ELSE ref[L]
     /\ prev(series, 1) = current(series)
     /\ \A n \in (-1)..(MaxUpdates + 1) :
          /\ prev(series, n) = IF n <= 0 \/ n > L THEN 0 ELSE ref[L + 1 - n]
          /\ last_n(series, n) = IF n <= 0 THEN <<>>
                                 ELSE SubSeq(ref, L + 1 - Min(n, L), L)

\* C27 witness: more values were inserted than the series retains, and the
\* two most recent ones differ.
C27_Witness ==
  /\ Len(inserted) > Len(series.values)
  /\ Len(series.values) >= 2
  /\ prev(series, 2) # current(series)

\* ------------------------------------------------------------------ engine claims (2)
\* the buy guard of evaluate_trade, line 82
BuyGuard(i) == i.last_trade_side # "buy" /\ i.expected_trade_side = "buy"

\* the evaluation sent nothing, set last_trade_side to BUY and left
\* trade_count, last_trade_price, realized_pnl, expected_trade_side and
\* is_blocked as they were
HeldOnUptick(s) ==
  /\ NewCalls(s) = <<>>
  /\ info'[s].last_trade_side = "buy"
  /\ info'[s].trade_count = info[s].trade_count
  /\ info'[s].last_trade_price = info[s].last_trade_price
  /\ info'[s].realized_pnl = info[s].realized_pnl
  /\ info'[s].expected_trade_side = info[s].expected_trade_side
  /\ info'[s].is_blocked = info[s].is_blocked

\* C28 as stated: the evaluation of an uptick on an unblocked symbol that
\* does not satisfy the buy guard sends nothing and changes, of the trade
\* state, only unrealized_pnl and last_trade_side (set to BUY).
C28_HoldOnUptickAlways ==
  [][ \A s \in EngineSymbols :
        (EEvaluate(s) /\ Uptick(s) /\ ~BuyGuard(info[s])) => HeldOnUptick(s) ]_vars

\* C28, amended: the same, for an evaluation that starts with unrealized_pnl
\* below the take-profit factor.
C28_HoldOnUptick ==
  [][ \A s \in EngineSymbols :
        ( /\ EEvaluate(s)
          /\ Uptick(s)
          /\ ~BuyGuard(info[s])
          /\ info[s].unrealized_pnl < take_profit_factor_per_trade )
        => HeldOnUptick(s) ]_vars

\* C28 witness: after a BUY, a further uptick was evaluated in the branch of
\* lines 115-117 and left the symbol long with an unrealized PnL of 1.
C28_Witness ==
  \E s \in EngineSymbols :
    /\ branch[s] = "hold_up"
    /\ info[s].trade_count = 1
    /\ info[s].last_trade_side = "buy"
    /\ info[s].expected_trade_side = "sell"
    /\ info[s].unrealized_pnl = 1
    /\ ~info[s].is_blocked

\* ------------------------------------------------------------------ tailer claims (3)
\* the only thing that has happened to the source of s since follow() took
\* its position at the start of the empty source is that a producer wrote
\* one record of s, in two pieces, and a poll tick has ended since
WrittenInPieces(s) ==
  /\ tpc[s] = "poll"
  /\ settled[s]
  /\ base[s] = 0
  /\ hist[s] = {"partial", "complete"}
  /\ Len(file[s].lines) = 1
  /\ file[s].lines[1].kind = "alert"

\* C29: a read that finds the last line of the source unfinished leaves the
\* cursor at or before the first byte of that line, and a record written in
\* two pieces is yielded once its line is complete.
C29_PartialLineNotLost ==
  [][ /\ \A s \in Symbols :
           (TRead(s) /\ LastIsPart(file[s].lines))
             => pos'[s] <= Size(SubSeq(file[s].lines, 1, Len(file[s].lines) - 1))
      /\ \A s \in Symbols :
           WrittenInPieces(s)' => emitted'[s] = <<file'[s].lines[1].ts>> ]_vars

\* C30: a poll tick at which the source is unreadable for a reason other than
\* absence leaves the tailer polling, with its cursor and its watermark.
C30_UnreadableSourceRetried ==
  [][ \A s \in Symbols :
        TUnreadable(s) => /\ tpc'[s] = "poll"
                          /\ pos'[s] = pos[s]
                          /\ last_ts'[s] = last_ts[s] ]_vars

\* ------------------------------------------------------------------ merger claims (3)
\* the tailer of t sleeps: its source does not exist, or holds nothing new
Waiting(t) ==
  \/ tpc[t] = "wait" /\ ~file[t].exists
  \/ tpc[t] = "poll" /\ file[t].exists /\ Size(file[t].lines) = pos[t]

\* the source of s holds a record that the next poll of its tailer yields
HasNewRecord(s) ==
  /\ tpc[s] = "poll"
  /\ file[s].exists
  /\ pos[s] <= Size(file[s].lines)
  /\ ReadFrom(file[s].lines, pos[s], last_ts[s], s).out # <<>>

\* C31: while the tailer of another source waits, a new record in the source
\* of s is yielded by the tailer of s and delivered in a batch, unless the
\* consumer stops first.
C31_WaitingDelaysNoOne ==
  \A s \in Symbols : \A n \in 0..MaxMOps :
    ( /\ HasNewRecord(s)
      /\ Len(emitted[s]) = n
      /\ \E t \in Symbols \ {s} : Waiting(t) )
    ~> ( \/ Len(OfSymbol(Flatten(delivered), s)) > n
         \/ mpc \notin {"run", "yielded"} )

\* the task of the tailer of s is still running
Running(s) == tpc[s] \in {"start", "wait", "size", "poll", "read"}

\* C32: when a tailer task had ended with an error before the shutdown, the
\* merger still leaves its finally block with no tailer task running.
C32_ShutdownAfterFailure ==
  (MergerDone /\ \E s \in Symbols : tpc[s] = "failed")
    => \A t \in Symbols : ~Running(t)

\* ------------------------------------------------------------------ engine claims (3)
IsTrade(x) == x \in Sides

\* the BUY and SELL signals among the calls q, in order
Trades(q) == SelectSeq(q, IsTrade)

Alternates(q) == \A k \in 1..(Len(q) - 1) : q[k] # q[k + 1]

\* C33: the BUY and SELL signals sent for a symbol alternate, and once a
\* trade has been made expected_trade_side is the side opposite to
\* last_trade_side.
C33_TradesAlternate ==
  \A s \in EngineSymbols :
    /\ Alternates(Trades(calls[s]))
    /\ info[s].trade_count > 0
         => /\ info[s].last_trade_side \in Sides
            /\ info[s].expected_trade_side \in Sides \ {info[s].last_trade_side}

\* C33 witness: a BUY, a SELL and a BUY again were sent for a symbol.
C33_Witness ==
  \E s \in EngineSymbols :
    /\ Trades(calls[s]) = <<"buy", "sell", "buy">>
    /\ info[s].trade_count = 3
    /\ info[s].expected_trade_side = "sell"

\* the evaluation cut short at its BUY or SELL alert (the alert raises): its
\* info is the SymbolInfo at the moment the signal is sent
AtSend(i, pr, d) == evaluate_trade(i, pr, [d EXCEPT !.g1 = FALSE])

\* C34: whenever an evaluation sends a BUY or a SELL, is_blocked of the
\* symbol is false at the moment the signal is sent, whatever the block rule
\* has decided earlier in that evaluation.
C34_NoTradeWhileBlocked ==
  \A s \in EngineSymbols :
    (AtSymbol(s) /\ ~info[s].is_blocked)
    => \A d \in Decisions :
         LET r == AtSend(info[s], price[s], d)
         IN (r.calls # <<>> /\ r.calls[1] \in Sides) => ~r.info.is_blocked

\* ------------------------------------------------------------------ position claims
\* no broker call of the run has raised
BrokerReliable == bdone = bcalls

\* the side that agrees with a trend
Agrees(side, trend) ==
  \/ trend = "UP" /\ side = "CALL"
  \/ trend = "DOWN" /\ side = "PUT"

\* C35: a handle_trend call with trend None calls no broker method and leaves
\* side as it was; with reenter_on_reverse and no broker call raising, a call
\* with another trend ends with the side that agrees with it, and side is
\* always None or the side that agrees with the most recent trend that was
\* not None.
C35_SideFollowsTrend ==
  [][ /\ hlabel' = "NO_TREND" => (bcalls' = bcalls /\ pstate'.side = pstate.side)
      /\ (reenter /\ BrokerReliable')
           => /\ hlabel' # "NO_TREND" => Agrees(pstate'.side, htrend')
              /\ pstate'.side = "None" \/ Agrees(pstate'.side, htrend') ]_vars

\* C35 witness: no broker call has raised; the position was opened on UP,
\* reversed on DOWN, and a call with trend None has left it a PUT.
C35_Witness ==
  /\ reenter
  /\ hlabel = "NO_TREND"
  /\ bdone = <<"buy_call", "exit_position", "buy_put">>
  /\ BrokerReliable
  /\ pstate = [side |-> "PUT", last_trend |-> "None"]
  /\ htrend = "DOWN"

IsOpen(x) == x \in {"buy_call", "buy_put"}

\* opening calls at the odd places of q, exit_position at the even ones
OpenExitAlternate(q) == \A k \in 1..Len(q) : IsOpen(q[k]) <=> k % 2 = 1

\* C36: in the broker calls made so far, opening calls and exit_position
\* calls alternate, the first call being an opening one.
C36_OpenExitAlternate ==
  OpenExitAlternate(bcalls)

\* the side a sequence of completed broker calls leaves, starting flat
RECURSIVE NetSide(_)
NetSide(q) ==
  IF q = <<>> THEN "None"
  ELSE LET x == q[Len(q)]
       IN IF x = "buy_call" THEN "CALL" ELSE IF x = "buy_put" THEN "PUT" ELSE "None"

\* the broker calls made by the step from the current to the next state
NewBrokerCalls == SubSeq(bcalls', Len(bcalls) + 1, Len(bcalls'))

\* C37: side is always the net effect of the broker calls that returned; a
\* handle_trend call that raises at its first broker call (a failed open, a
\* failed exit) leaves side as it was, and one that raises at the re-entry
\* after the exit leaves side None.
C37_SideIsNetOfCompletedCalls ==
  [][ /\ pstate'.side = NetSide(bdone')
      /\ (hlabel' = "RAISED" /\ Len(NewBrokerCalls) = 1) => pstate'.side = pstate.side
      /\ (hlabel' = "RAISED" /\ Len(NewBrokerCalls) = 2) => pstate'.side = "None" ]_vars

\* C37 witness: the position was opened, the exit of a reversal returned and
\* the re-entry raised: the state is flat.
C37_Witness ==
  /\ hlabel = "RAISED"
  /\ bcalls = <<"buy_call", "exit_position", "buy_put">>
  /\ bdone = <<"buy_call", "exit_position">>
  /\ pstate.side = "None"


\* ------------------------------------------------------------------ trader claims
\* the actions of the signals of symbol s other than HOLD, in order of emission
RECURSIVE TradeSignals(_, _)
TradeSignals(q, s) ==
  IF q = <<>> THEN <<>>
  ELSE LET x == q[Len(q)]
           rest == TradeSignals(SubSeq(q, 1, Len(q) - 1), s)
       IN IF x.symbol = s /\ x.action # "HOLD" THEN Append(rest, x.action) ELSE rest

ExitsFollowOpens(q) ==
  \A k \in 1..Len(q) : q[k] = "EXIT" => (k > 1 /\ q[k - 1] \in {"BUY_CALL", "BUY_PUT"})

\* C38: for every symbol, each EXIT signal is preceded by a BUY_CALL or
\* BUY_PUT signal of that symbol emitted since the previous EXIT.
C38_ExitAfterOpen ==
  \A s \in Symbols : ExitsFollowOpens(TradeSignals(signals, s))

\* the first signal of a symbol that is not HOLD is never an EXIT
FirstTradeSignalIsOpen ==
  \A s \in Symbols : LET q == TradeSignals(signals, s) IN q # <<>> => q[1] # "EXIT"


\* ------------------------------------------------------------------ tailer claims (4)
\* what the step from the current to the next state yields for symbol s
NewlyEmitted(s) == SubSeq(emitted'[s], Len(emitted[s]) + 1, Len(emitted'[s]))

\* C39: a size check that finds the source shorter than the cursor sets the
\* cursor to 0 and leaves watermark, yields and queue alone; the read that
\* follows it yields only timestamps greater than that watermark, none of
\* them yielded before.
C39_TruncationKeepsWatermark ==
  [][ \A s \in Symbols :
        /\ (file[s].exists /\ Size(file[s].lines) < pos[s] /\ TPoll(s))
             => /\ pos'[s] = 0
                /\ last_ts'[s] = last_ts[s]
                /\ emitted'[s] = emitted[s]
                /\ queues'[s] = queues[s]
        /\ (trunc[s] /\ TRead(s))
             => \A k \in 1..Len(NewlyEmitted(s)) :
                  /\ NewlyEmitted(s)[k] > last_ts[s]
                  /\ NewlyEmitted(s)[k] \notin Range(emitted[s]) ]_vars

\* C39 witness: a record appended behind the first line was yielded, the
\* source was then rewritten shorter with a later record, and the replay from
\* offset 0 yielded that record.
C39_Witness ==
  \E s \in Symbols :
    /\ tpc[s] = "poll"
    /\ settled[s]
    /\ base[s] = 1
    /\ hist[s] = {"append", "overwrite"}
    /\ Len(file[s].lines) = 1
    /\ emitted[s] = <<1, 2>>
    /\ last_ts[s] = 2
    /\ pos[s] = Size(file[s].lines)

\* the skipped replay: the rewritten source holds only a record
\* that was already yielded, and the replay from offset 0 yielded nothing.
TruncationReplaySkipsOld ==
  \E s \in Symbols :
    /\ tpc[s] = "poll"
    /\ settled[s]
    /\ base[s] = 1
    /\ hist[s] = {"append", "overwrite"}
    /\ emitted[s] = <<2>>
    /\ stale[s]
    /\ pos[s] = Size(file[s].lines)

====
